---- MODULE Spec2Model ----
(***************************************************************************)
(* Model of src/src/app/page.tsx: the BookingBot chat component.           *)
(*                                                                         *)
(* Representation.  A text is a sequence of string tokens (the empty       *)
(* string is <<>>, a blank is the token " "), so that trim() and string    *)
(* concatenation are computed.  An optional value (File | null, the        *)
(* undefined argument, a localStorage entry that may be absent) is a       *)
(* sequence of length 0 or 1.  Ids produced by genId are one-token texts   *)
(* and are drawn fresh: randomUUID is modelled as collision free.  The     *)
(* tokens drawn for messages and those drawn by the chatId hook's argument *)
(* are numbered apart ("m1", "m2", ... and "c1", "c2", ...).  The ts field *)
(* of a message (Date.now()) is not modelled: nothing reads it.            *)
(*                                                                         *)
(* One action is one run-to-completion block of JavaScript: an event       *)
(* handler up to its first await, the continuation after an await, a       *)
(* recorder callback, or one render with its effects.                      *)
(***************************************************************************)
EXTENDS Naturals, Sequences, FiniteSets, TLC

\* ------------------------------------------------------------------ bounds
\* handleSend calls that pass the empty-input guard
MaxTurns == 2
\* getUserMedia calls issued by toggleRecording
MaxRec == 2

\* --------------------------------------------------------------- constants
None == <<>>
Some(v) == <<v>>

BLANK == " "
\* page.tsx:180 (the one-character ellipsis)
PENDING == <<"...">>
\* page.tsx:207-208
DEMO == <<"(Demo) I couldn't reach your n8n webhook. once it's running, set the URL in Settings.">>
\* page.tsx:205
EMPTY_REPLY == <<"(empty)">>
\* page.tsx:117
NO_BODY == <<"(No response body)">>
\* page.tsx:138
WELCOME == <<"Hello! I'm your Booking Bot assistant.">>
\* page.tsx:147 (NEXT_PUBLIC_WEBHOOK_URL unset)
DEFAULT_WEBHOOK == <<"https://agents.telikos-engineering.com/webhook-test/f27f2ea6-0199-4b5c-b72a-6db4206b7248">>
\* page.tsx:281
LOCAL_WEBHOOK == <<"http://localhost:5678/webhook/booking-bot">>
\* page.tsx:24-30: the first of the five quick replies; the buttons differ in text only
DEFAULT_QUICK == { <<"Book a room for next Tuesday">> }
KEY_WEBHOOK == "bookingbot:webhook"
KEY_CHATID == "bookingbot:chatId"

\* ------------------------------------------------------------ pure helpers
RECURSIVE TrimStart(_)
TrimStart(s) ==
  IF s # <<>> /\ Head(s) = BLANK THEN TrimStart(Tail(s)) ELSE s

RECURSIVE TrimEnd(_)
TrimEnd(s) ==
  IF s # <<>> /\ s[Len(s)] = BLANK THEN TrimEnd(SubSeq(s, 1, Len(s) - 1)) ELSE s

\* String.prototype.trim
Trim(s) == TrimEnd(TrimStart(s))

\* A genId that keeps the clock part only: two ids drawn in the same millisecond coincide
genIdClockOnly(u, n) == << u \o ToString(n \div 2) >>

\* genId(): the n-th token drawn for use u ("m": a message id, "c": a chatId)
genId(u, n) == << u \o ToString(n) >>

\* localStorage.getItem(key): None when the key is absent
getItem(ls, key) == IF key \in DOMAIN ls THEN Some(ls[key]) ELSE None

\* localStorage.setItem(key, v)
setItem(ls, key, v) == [k \in DOMAIN ls \cup {key} |-> IF k = key THEN v ELSE ls[k]]

\* ------------------------------------------------------- parseWebhookText
(* A JSON value, as JSON.parse returns it:                                 *)
(*   [t |-> "string", s |-> text]      [t |-> "number", lit |-> token]     *)
(*   [t |-> "boolean", lit |-> token]  [t |-> "null"]                      *)
(*   [t |-> "array", items |-> sequence of values]                         *)
(*   [t |-> "object", fields |-> sequence of <<key, value>>, keys unique]  *)
JStr(s) == [t |-> "string", s |-> s]
JNum(lit) == [t |-> "number", lit |-> lit]
JNull == [t |-> "null"]
JArr(items) == [t |-> "array", items |-> items]
JObj(fields) == [t |-> "object", fields |-> fields]

\* typeof v === "string"
isString(v) == v # None /\ v[1].t = "string"

\* isRecord(v): typeof v === "object" && v !== null (an array is an object)
isRecord(v) == v # None /\ v[1].t \in {"object", "array"}

\* Array.isArray(v)
isArray(v) == v # None /\ v[1].t = "array"

\* v.key for a value that passed isRecord: None stands for undefined
prop(v, key) ==
  IF v[1].t = "object" /\ \E i \in DOMAIN v[1].fields : v[1].fields[i][1] = key
    THEN LET i == CHOOSE j \in DOMAIN v[1].fields : v[1].fields[j][1] = key
         IN Some(v[1].fields[i][2])
    ELSE None

\* choices[0]
firstItem(v) == IF v[1].items # <<>> THEN Some(v[1].items[1]) ELSE None

RECURSIVE Pad(_)
Pad(n) == IF n = 0 THEN <<>> ELSE <<"  ">> \o Pad(n - 1)

RECURSIVE Stringify(_, _)
RECURSIVE StringifyItems(_, _, _)
RECURSIVE StringifyFields(_, _, _)
\* JSON.stringify(v, null, 2), at nesting depth d
Stringify(v, d) ==
  CASE v.t = "string" -> <<"\"">> \o v.s \o <<"\"">>
    [] v.t = "number" -> <<v.lit>>
    [] v.t = "boolean" -> <<v.lit>>
    [] v.t = "null" -> <<"null">>
    [] v.t = "array" ->
         IF v.items = <<>> THEN <<"[]">>
         ELSE <<"[", "\n">> \o StringifyItems(v.items, 1, d + 1) \o <<"\n">> \o Pad(d) \o <<"]">>
    [] v.t = "object" ->
         IF v.fields = <<>> THEN <<"{}">>
         ELSE <<"{", "\n">> \o StringifyFields(v.fields, 1, d + 1) \o <<"\n">> \o Pad(d) \o <<"}">>
StringifyItems(items, i, d) ==
  Pad(d) \o Stringify(items[i], d)
    \o (IF i < Len(items) THEN <<",", "\n">> \o StringifyItems(items, i + 1, d) ELSE <<>>)
StringifyFields(fields, i, d) ==
  Pad(d) \o <<"\"", fields[i][1], "\"", ": ">> \o Stringify(fields[i][2], d)
    \o (IF i < Len(fields) THEN <<",", "\n">> \o StringifyFields(fields, i + 1, d) ELSE <<>>)

\* String(parsed) for a parsed scalar that is neither a string nor an object
StringOf(v) == IF v.t = "null" THEN <<"null">> ELSE <<v.lit>>

(* A response body is given with what the platform's parsers make of it:   *)
(*   raw     the text as received (res.text())                             *)
(*   first   the first character of raw.trim(): "{", "[", "\"", "<",       *)
(*           "" when nothing is left, "x" for any other character          *)
(*   json    JSON.parse(raw.trim()): None when it throws                   *)
(*   iframeTag, srcdocWord   lower.includes("<iframe"), ("srcdoc=")        *)
(*   srcdoc  the srcdoc attribute of the first iframe[srcdoc] element the  *)
(*           DOMParser finds: None when there is no such element           *)
(*   innerText  body.textContent of the srcdoc parsed as a document        *)
(*   text    body.textContent of raw.trim() parsed as a document           *)
\* page.tsx:69
looksJson(body, contentType) ==
  \/ contentType # None /\ \E i \in DOMAIN contentType[1] : contentType[1][i] = "application/json"
  \/ body.first \in {"[", "{", "\""}

\* A try block that looks at data.reply before the top-level reply
parseJsonDataFirst(body) ==
  LET parsed == body.json IN
  IF parsed = None THEN None
  ELSE IF isString(parsed) THEN Some(parsed[1].s)
  ELSE IF isRecord(parsed) THEN
    LET reply == prop(parsed, "reply")
        data == prop(parsed, "data")
        choices == prop(parsed, "choices")
        first == IF isArray(choices) THEN firstItem(choices) ELSE None
        message == IF isRecord(first) THEN prop(first, "message") ELSE None
    IN IF isRecord(data) /\ isString(prop(data, "reply")) THEN Some(prop(data, "reply")[1].s)
       ELSE IF isString(reply) THEN Some(reply[1].s)
       ELSE IF isRecord(message) /\ isString(prop(message, "content"))
         THEN Some(prop(message, "content")[1].s)
       ELSE Some(<<"\n">> \o Stringify(parsed[1], 0))
  ELSE Some(StringOf(parsed[1]))

\* page.tsx:72-89: the value returned inside the try, None when the try throws
parseJsonBranch(body) ==
  LET parsed == body.json IN
  IF parsed = None THEN None
  ELSE IF isString(parsed) THEN Some(parsed[1].s)
  ELSE IF isRecord(parsed) THEN
    LET reply == prop(parsed, "reply")
        data == prop(parsed, "data")
        choices == prop(parsed, "choices")
        first == IF isArray(choices) THEN firstItem(choices) ELSE None
        message == IF isRecord(first) THEN prop(first, "message") ELSE None
    IN IF isString(reply) THEN Some(reply[1].s)
       ELSE IF isRecord(data) /\ isString(prop(data, "reply")) THEN Some(prop(data, "reply")[1].s)
       ELSE IF isRecord(message) /\ isString(prop(message, "content"))
         THEN Some(prop(message, "content")[1].s)
       ELSE Some(<<"\n">> \o Stringify(parsed[1], 0))
  ELSE Some(StringOf(parsed[1]))

\* An HTML block whose iframe branch falls back to the outer document's text
parseHtmlFallback(body) ==
  IF body.first # "<" THEN None
  ELSE IF body.iframeTag /\ body.srcdocWord /\ body.srcdoc # None /\ body.srcdoc[1] # <<>>
          /\ Trim(body.innerText) # <<>>
    THEN Some(Trim(body.innerText))
  ELSE IF Trim(body.text) # <<>> THEN Some(Trim(body.text))
  ELSE None

\* page.tsx:95-115: the value returned inside the HTML block, None when it falls through
parseHtmlBranch(body) ==
  IF body.first # "<" THEN None
  ELSE IF body.iframeTag /\ body.srcdocWord THEN
    LET src == IF body.srcdoc = None THEN <<>> ELSE body.srcdoc[1] IN
    IF src # <<>> /\ Trim(body.innerText) # <<>> THEN Some(Trim(body.innerText))
    ELSE Some(<<>>)
  ELSE IF Trim(body.text) # <<>> THEN Some(Trim(body.text))
  ELSE None

\* A decode that gives up with the placeholder when JSON.parse throws
parseWebhookTextNoFallThrough(body, contentType) ==
  LET h == parseHtmlBranch(body)
  IN IF looksJson(body, contentType)
       THEN (IF parseJsonBranch(body) # None THEN parseJsonBranch(body)[1] ELSE NO_BODY)
       ELSE IF h # None THEN h[1]
       ELSE IF body.raw # <<>> THEN body.raw
       ELSE NO_BODY

\* page.tsx:65-118
parseWebhookText(body, contentType) ==
  LET j == IF looksJson(body, contentType) THEN parseJsonBranch(body) ELSE None
      h == parseHtmlBranch(body)
  IN IF j # None THEN j[1]
     ELSE IF h # None THEN h[1]
     ELSE IF body.raw # <<>> THEN body.raw
     ELSE NO_BODY

\* ------------------------------------------------------------ environment
\* What the user can type into the message box
Inputs == { <<>>, <<BLANK>>, <<BLANK, "Book a room for Tuesday", BLANK>> }

\* What the user can pick with the file input
Images == { "photo.png" }

\* What the user can type into the settings field
Drafts == { <<BLANK>> }

\* {"reply":"Room booked"}
BodyReply ==
  [ raw |-> <<"{\"reply\":\"Room booked\"}">>, first |-> "{",
    json |-> Some(JObj(<< <<"reply", JStr(<<"Room booked">>)>> >>)),
    iframeTag |-> FALSE, srcdocWord |-> FALSE, srcdoc |-> None,
    innerText |-> <<>>, text |-> <<>> ]

\* <iframe src="a"></iframe><!-- srcdoc= -->
BodyIframeNoSrcdoc ==
  [ raw |-> <<"<iframe src=\"a\"></iframe><!-- srcdoc= -->">>, first |-> "<",
    json |-> None,
    iframeTag |-> TRUE, srcdocWord |-> TRUE, srcdoc |-> None,
    innerText |-> <<>>, text |-> <<>> ]

\* What the webhook can answer: a body and its content-type header
Responses ==
  { [body |-> BodyReply, contentType |-> Some(<<"application/json">>)],
    [body |-> BodyIframeNoSrcdoc, contentType |-> Some(<<"text/html">>)] }

(* The bodies a webhook can answer with, one or more of each class: empty, *)
(* whitespace, JSON of every kind and shape, malformed JSON-looking text,  *)
(* HTML with and without an iframe, plain text.                            *)
\* A body that does not start with "<"
TextBody(raw, first, json) ==
  [ raw |-> raw, first |-> first, json |-> json,
    iframeTag |-> FALSE, srcdocWord |-> FALSE, srcdoc |-> None,
    innerText |-> <<>>, text |-> <<>> ]

\* A body that starts with "<": JSON.parse throws on it
HtmlBody(raw, iframeTag, srcdocWord, srcdoc, innerText, text) ==
  [ raw |-> raw, first |-> "<", json |-> None,
    iframeTag |-> iframeTag, srcdocWord |-> srcdocWord, srcdoc |-> srcdoc,
    innerText |-> innerText, text |-> text ]

ReplyField == <<"reply", JStr(<<"From reply">>)>>
DataField == <<"data", JObj(<< <<"reply", JStr(<<"From data">>)>> >>)>>
ChoicesField ==
  <<"choices", JArr(<< JObj(<< <<"message", JObj(<< <<"content", JStr(<<"From choices">>)>> >>)>> >>) >>)>>

BodyEmpty == TextBody(<<>>, "", None)
BodyBlank == TextBody(<<BLANK, BLANK>>, "", None)
\* {"data":{"reply":"From data"}}
BodyDataReply == TextBody(<<"{\"data\":{\"reply\":\"From data\"}}">>, "{", Some(JObj(<<DataField>>)))
\* {"choices":[{"message":{"content":"From choices"}}]}
BodyChoices ==
  TextBody(<<"{\"choices\":[{\"message\":{\"content\":\"From choices\"}}]}">>, "{",
           Some(JObj(<<ChoicesField>>)))
\* the three shapes in one object, the top-level reply last
BodyAllThree ==
  TextBody(<<"{\"choices\":[...],\"data\":{...},\"reply\":\"From reply\"}">>, "{",
           Some(JObj(<<ChoicesField, DataField, ReplyField>>)))
\* data.reply and the choices shape, no top-level reply
BodyDataAndChoices ==
  TextBody(<<"{\"choices\":[...],\"data\":{...}}">>, "{", Some(JObj(<<ChoicesField, DataField>>)))
\* {"reply":5,"choices":[...]}: a top-level reply that is not a string
BodyReplyNotString ==
  TextBody(<<"{\"reply\":5,\"choices\":[...]}">>, "{",
           Some(JObj(<< <<"reply", JNum("5")>>, ChoicesField >>)))
\* {"reply":""}
BodyReplyEmpty == TextBody(<<"{\"reply\":\"\"}">>, "{", Some(JObj(<< <<"reply", JStr(<<>>)>> >>)))
\* {"status":"ok"}, surrounded by blanks
BodyNoShape ==
  TextBody(<<BLANK, "{\"status\":\"ok\"}", BLANK>>, "{", Some(JObj(<< <<"status", JStr(<<"ok">>)>> >>)))
\* {"choices":[]}
BodyChoicesEmpty == TextBody(<<"{\"choices\":[]}">>, "{", Some(JObj(<< <<"choices", JArr(<<>>)>> >>)))
\* "hello"
BodyJsonString == TextBody(<<"\"hello\"">>, "\"", Some(JStr(<<"hello">>)))
\* 42
BodyJsonNumber == TextBody(<<"42">>, "x", Some(JNum("42")))
\* null
BodyJsonNull == TextBody(<<"null">>, "x", Some(JNull))
\* [1,"a"]
BodyJsonArray == TextBody(<<"[1,\"a\"]">>, "[", Some(JArr(<< JNum("1"), JStr(<<"a">>) >>)))
\* {bad
BodyMalformed == TextBody(<<"{bad">>, "{", None)
\* Room booked, surrounded by blanks
BodyPlain == TextBody(<<BLANK, "Room booked", BLANK>>, "x", None)
\* <p> Hello </p>
BodyHtmlPlain == HtmlBody(<<"<p> Hello </p>">>, FALSE, FALSE, None, <<>>, <<BLANK, "Hello", BLANK>>)
\* <br>
BodyHtmlNoText == HtmlBody(<<"<br>">>, FALSE, FALSE, None, <<>>, <<>>)
\* <iframe srcdoc="<p> Inner </p>"></iframe>
BodyIframeSrcdoc ==
  HtmlBody(<<"<iframe srcdoc=\"<p> Inner </p>\"></iframe>">>, TRUE, TRUE,
           Some(<<"<p> Inner </p>">>), <<BLANK, "Inner", BLANK>>, <<>>)
\* <p>Outer</p><iframe srcdoc="<br>"></iframe>
BodyIframeNoInnerText ==
  HtmlBody(<<"<p>Outer</p><iframe srcdoc=\"<br>\"></iframe>">>, TRUE, TRUE,
           Some(<<"<br>">>), <<>>, <<"Outer">>)
\* <p>Outer</p><iframe srcdoc=""></iframe>
BodyIframeEmptySrcdoc ==
  HtmlBody(<<"<p>Outer</p><iframe srcdoc=\"\"></iframe>">>, TRUE, TRUE,
           Some(<<>>), <<>>, <<"Outer">>)
\* <p>Outer</p><iframe src="a"></iframe>
BodyIframeOnly ==
  HtmlBody(<<"<p>Outer</p><iframe src=\"a\"></iframe>">>, TRUE, FALSE, None, <<>>, <<"Outer">>)

Bodies ==
  { BodyEmpty, BodyBlank, BodyReply, BodyDataReply, BodyChoices, BodyAllThree,
    BodyDataAndChoices, BodyReplyNotString, BodyReplyEmpty, BodyNoShape, BodyChoicesEmpty,
    BodyJsonString, BodyJsonNumber, BodyJsonNull, BodyJsonArray, BodyMalformed, BodyPlain,
    BodyHtmlPlain, BodyHtmlNoText, BodyIframeSrcdoc, BodyIframeNoSrcdoc,
    BodyIframeNoInnerText, BodyIframeEmptySrcdoc, BodyIframeOnly }

\* res.headers.get("content-type"): absent, JSON, other
ContentTypes == { None, Some(<<"application/json", "; charset=utf-8">>), Some(<<"text/html">>) }

\* Every body with every content type
ParseResponses == [ body : Bodies, contentType : ContentTypes ]

\* What localStorage can hold when the page is opened
InitialStorage ==
  { <<>>,
    [k \in {KEY_WEBHOOK, KEY_CHATID} |->
       IF k = KEY_WEBHOOK THEN LOCAL_WEBHOOK ELSE <<"stored-chat">>] }

\* ------------------------------------------------------------------ state
VARIABLES
  mounted,        \* the first render has been committed
  localStorage,   \* window.localStorage, a map from key to value
  webhookUrl,     \* useLocalStorage(webhook): the value the last render saw
  webhookNext,    \* ... and the value its state holds for the next render
  chatId,         \* useLocalStorage(chatId): the value the last render saw
  chatIdNext,     \* ... and the value its state holds for the next render
  nextId,         \* number of message ids drawn so far, plus one
  nextChatId,     \* number of chatId tokens drawn and used so far, plus one
  messages,       \* useState<ChatMessage[]>
  input,          \* useState("")
  sending,        \* useState(false)
  attachedImage,  \* useState<File | null>
  recording,      \* useState(false)
  mediaRecorder,  \* useState<MediaRecorder | null>, an index into recorders
  settingsOpen,   \* useState(false)
  draftWebhook,   \* useState("")
  turns,          \* the handleSend calls that passed the guard, in call order
  acqs,           \* the getUserMedia calls issued, in call order
  recorders,      \* the MediaRecorder objects constructed, in order
  alerts          \* number of alert("Could not access microphone.") shown

vars == << mounted, localStorage, webhookUrl, webhookNext, chatId, chatIdNext,
           nextChatId, nextId, messages, input, sending, attachedImage, recording,
           mediaRecorder, settingsOpen, draftWebhook, turns, acqs, recorders,
           alerts >>

hookVars == << mounted, localStorage, webhookUrl, webhookNext, chatId, chatIdNext,
              nextChatId >>
chatVars == << messages, input, sending, attachedImage, turns >>
recVars == << recording, mediaRecorder, acqs, recorders, alerts >>
settingsVars == << settingsOpen, draftWebhook >>

\* page.tsx:132-150: the state after construction (the first render's useState calls)
Init ==
  /\ mounted = FALSE
  /\ localStorage \in InitialStorage
  /\ webhookUrl = <<>> /\ webhookNext = <<>>
  /\ chatId = <<>> /\ chatIdNext = <<>>
  /\ messages = << [id |-> genId("m", 1), role |-> "assistant", content |-> WELCOME] >>
  /\ nextId = 2
  /\ nextChatId = 1
  /\ input = <<>>
  /\ sending = FALSE
  /\ attachedImage = None
  /\ recording = FALSE
  /\ mediaRecorder = None
  /\ settingsOpen = FALSE
  /\ draftWebhook = <<>>
  /\ turns = <<>>
  /\ acqs = <<>>
  /\ recorders = <<>>
  /\ alerts = 0

\* ------------------------------------------------------- useLocalStorage
\* page.tsx:41-44: the value the first effect passes to setValue
loadValue(ls, key, initial) ==
  LET v == getItem(ls, key) IN IF v = None THEN initial ELSE v[1]

\* page.tsx:45-47: localStorage after the second effect has run for value
storeValue(ls, key, value) ==
  IF value # <<>> THEN setItem(ls, key, value) ELSE ls

(* One render of BookingBot with its commit and passive effects, where the *)
(* webhook hook's state holds wv.  The render sees the values the two      *)
(* hooks' states hold.  Effects run in declaration order: webhook load,    *)
(* webhook store, chatId load, chatId store; an effect runs on the first   *)
(* commit and whenever one of its dependencies differs from the previous   *)
(* render's.  The webhook hook's `initial` never changes; the chatId       *)
(* hook's `initial` is genId(), a new value on every render (page.tsx:148),*)
(* so its load effect runs on every commit.  The id drawn by a render is   *)
(* counted in nextChatId only when the load effect uses it.                *)
render(wv) ==
  LET cv == chatIdNext
      first == ~mounted
      initialChatId == genId("c", nextChatId)
      ls1 == IF first \/ wv # webhookUrl
               THEN storeValue(localStorage, KEY_WEBHOOK, wv) ELSE localStorage
      ls2 == IF first \/ cv # chatId
               THEN storeValue(ls1, KEY_CHATID, cv) ELSE ls1
  IN /\ mounted' = TRUE
     /\ webhookUrl' = wv
     /\ chatId' = cv
     /\ webhookNext' = IF first THEN loadValue(localStorage, KEY_WEBHOOK, DEFAULT_WEBHOOK) ELSE wv
     /\ chatIdNext' = loadValue(ls1, KEY_CHATID, initialChatId)
     /\ localStorage' = ls2
     /\ nextChatId' = IF getItem(ls1, KEY_CHATID) = None THEN nextChatId + 1 ELSE nextChatId

(* A render that an effect's setValue brought about: the first one, and    *)
(* any later one that finds a hook's state changed.  A render caused by    *)
(* another state change finds both hooks' values unchanged and is not a    *)
(* separate step: it can change nothing unless this action is enabled too. *)
Commit ==
  /\ ~mounted \/ webhookNext # webhookUrl \/ chatIdNext # chatId
  /\ render(webhookNext)
  /\ UNCHANGED << nextId, chatVars, recVars, settingsVars >>

\* --------------------------------------------------------------- settings
(* The settings dialog is modal (Dialog, page.tsx:450): while it is open   *)
(* the page behind it takes no clicks and no keys, so the user's actions   *)
(* on the page require it closed.  Callbacks and renders are not held up.  *)
\* page.tsx:280-283
OpenSettings ==
  /\ mounted /\ ~settingsOpen
  /\ draftWebhook' = (IF webhookUrl # <<>> THEN webhookUrl ELSE LOCAL_WEBHOOK)
  /\ settingsOpen' = TRUE
  /\ UNCHANGED << hookVars, nextId, chatVars, recVars >>

\* page.tsx:462
EditDraft(d) ==
  /\ settingsOpen /\ d # draftWebhook
  /\ draftWebhook' = d
  /\ UNCHANGED << hookVars, nextId, chatVars, recVars, settingsOpen >>

\* page.tsx:470
DefaultDraft ==
  /\ settingsOpen /\ draftWebhook # DEFAULT_WEBHOOK
  /\ draftWebhook' = DEFAULT_WEBHOOK
  /\ UNCHANGED << hookVars, nextId, chatVars, recVars, settingsOpen >>

\* page.tsx:450, 478
CancelSettings ==
  /\ settingsOpen
  /\ settingsOpen' = FALSE
  /\ UNCHANGED << hookVars, nextId, chatVars, recVars, draftWebhook >>

(* page.tsx:482-485: the click sets the hook's state; React renders and    *)
(* runs the effects of a click's updates before the next event is handled. *)
SaveSettings ==
  /\ settingsOpen
  /\ render(Trim(draftWebhook))
  /\ settingsOpen' = FALSE
  /\ UNCHANGED << nextId, chatVars, recVars, draftWebhook >>

\* ------------------------------------------------------------ the draft
\* page.tsx:401
TypeInput(t) ==
  /\ mounted /\ ~settingsOpen /\ t # input
  /\ input' = t
  /\ UNCHANGED << hookVars, nextId, messages, sending, attachedImage, turns,
                  recVars, settingsVars >>

\* page.tsx:245-250
handleFileSelect(f) ==
  /\ mounted /\ ~settingsOpen /\ attachedImage # Some(f)
  /\ attachedImage' = Some(f)
  /\ UNCHANGED << hookVars, nextId, messages, sending, input, turns,
                  recVars, settingsVars >>

\* page.tsx:347
RemoveImage ==
  /\ mounted /\ ~settingsOpen /\ attachedImage # None
  /\ attachedImage' = None
  /\ UNCHANGED << hookVars, nextId, messages, sending, input, turns,
                  recVars, settingsVars >>

\* ------------------------------------------------------------ handleSend
\* The values a handleSend closure reads, as the render that created it saw them
Closure ==
  [input |-> input, attachedImage |-> attachedImage, webhookUrl |-> webhookUrl, chatId |-> chatId]

\* The part of Closure that the handleSend called by a recorder's onstop reads
RecorderClosure ==
  [attachedImage |-> attachedImage, webhookUrl |-> webhookUrl, chatId |-> chatId]

\* page.tsx:159
bodyOf(text, cl) == Trim(IF text = None THEN cl.input ELSE text[1])

\* A guard that looks at the text and the image only
acceptedNoAudio(text, audioFile, cl) ==
  bodyOf(text, cl) # <<>> \/ cl.attachedImage # None

\* page.tsx:160: the guard lets the call through
accepted(text, audioFile, cl) ==
  bodyOf(text, cl) # <<>> \/ cl.attachedImage # None \/ audioFile # None

\* page.tsx:166-171
userMsgOf(id, body, currentImage, audioFile) ==
  [ id |-> id, role |-> "user",
    content |-> body \o (IF currentImage # None THEN <<" [Image Attached]">> ELSE <<>>)
                     \o (IF audioFile # None THEN <<" [Audio Attached]">> ELSE <<>>) ]

\* page.tsx:177-182
placeholderOf(id) == [id |-> id, role |-> "assistant", content |-> PENDING]

\* An append that puts the new message first: [msg, ...prev]
prependMessage(prev, msg) == <<msg>> \o prev

\* page.tsx:172, 175: setMessages((prev) => [...prev, msg])
appendMessage(prev, msg) == Append(prev, msg)

\* A replace that targets the last pending message instead of the captured id
replaceLastPending(prev, id, content) ==
  [i \in DOMAIN prev |->
     IF /\ prev[i].content = PENDING
        /\ \A j \in DOMAIN prev : j > i => prev[j].content # PENDING
       THEN [prev[i] EXCEPT !.content = content] ELSE prev[i]]

\* page.tsx:205, 209: setMessages((prev) => prev.map((m) => m.id === id ? {...m, content} : m))
replaceContent(prev, id, content) ==
  [i \in DOMAIN prev |-> IF prev[i].id = id THEN [prev[i] EXCEPT !.content = content] ELSE prev[i]]

\* A type that gives the image precedence over the audio
msgTypeImageFirst(currentImage, audioFile) ==
  IF currentImage # None THEN "image" ELSE IF audioFile # None THEN "audio" ELSE "text"

\* page.tsx:190
msgTypeOf(currentImage, audioFile) ==
  IF audioFile # None THEN "audio" ELSE IF currentImage # None THEN "image" ELSE "text"

\* page.tsx:189-202: the FormData handed to postToWebhook (metadata.ts is not modelled)
payloadOf(body, currentImage, audioFile, cl) ==
  [ type |-> msgTypeOf(currentImage, audioFile),
    text |-> body,
    source |-> "booking-bot",
    chatId |-> cl.chatId,
    metadata |-> [client |-> "web", chatId |-> cl.chatId],
    image |-> currentImage,
    audio |-> audioFile ]

\* page.tsx:205: reply || "(empty)"
replyContent(reply) == IF reply # <<>> THEN reply ELSE EMPTY_REPLY

(* page.tsx:158-204 and, without a webhook URL, 206-212: handleSend up to  *)
(* its first await.  text is the optional first argument, audioFile the    *)
(* optional second, cl the closure of the handleSend that is running.      *)
(* With no webhook URL the throw at line 187 is caught before any await,   *)
(* so the catch and finally blocks run in the same block.                  *)
handleSend(text, audioFile, cl) ==
  LET body == bodyOf(text, cl)
      currentImage == cl.attachedImage
      userId == genId("m", nextId)
      waitingId == genId("m", nextId + 1)
      appended == appendMessage(appendMessage(messages, userMsgOf(userId, body, currentImage, audioFile)),
                                placeholderOf(waitingId))
      turn == [ userId |-> userId, waitingId |-> waitingId, body |-> body,
                image |-> currentImage, audio |-> audioFile,
                request |-> None, response |-> None, status |-> "done", resolved |-> 1 ]
  IN /\ accepted(text, audioFile, cl)
     /\ Len(turns) < MaxTurns
     /\ input' = <<>>
     /\ attachedImage' = None
     /\ nextId' = nextId + 2
     /\ IF cl.webhookUrl = <<>>
          THEN /\ messages' = replaceContent(appended, waitingId, DEMO)
               /\ sending' = FALSE
               /\ turns' = Append(turns, turn)
          ELSE /\ messages' = appended
               /\ sending' = TRUE
               /\ turns' = Append(turns,
                    [turn EXCEPT !.request = Some(payloadOf(body, currentImage, audioFile, cl)),
                                 !.status = "inflight", !.resolved = 0])

\* page.tsx:350-355, 412-417: the form's submit and the Enter key call handleSend()
SubmitForm ==
  /\ mounted /\ ~settingsOpen
  /\ handleSend(None, None, Closure)
  /\ UNCHANGED << hookVars, recVars, settingsVars >>

\* page.tsx:215, 312
handleQuick(q) ==
  /\ mounted /\ ~settingsOpen
  /\ handleSend(Some(q), None, Closure)
  /\ UNCHANGED << hookVars, recVars, settingsVars >>

\* A success path that falls into the catch block after it has written the reply
CompleteOkThenCatch(i, r) ==
  /\ i \in DOMAIN turns /\ turns[i].status = "inflight"
  /\ messages' = replaceContent(
       replaceContent(messages, turns[i].waitingId,
                      replyContent(parseWebhookText(r.body, r.contentType))),
       turns[i].waitingId, DEMO)
  /\ sending' = FALSE
  /\ turns' = [turns EXCEPT ![i].status = "done", ![i].response = Some(r), ![i].resolved = @ + 2]
  /\ UNCHANGED << hookVars, nextId, input, attachedImage, recVars, settingsVars >>

\* page.tsx:204-205, 210-212: postToWebhook resolved with a response
CompleteOk(i, r) ==
  /\ i \in DOMAIN turns /\ turns[i].status = "inflight"
  /\ messages' = replaceContent(messages, turns[i].waitingId,
                                replyContent(parseWebhookText(r.body, r.contentType)))
  /\ sending' = FALSE
  /\ turns' = [turns EXCEPT ![i].status = "done", ![i].response = Some(r), ![i].resolved = @ + 1]
  /\ UNCHANGED << hookVars, nextId, input, attachedImage, recVars, settingsVars >>

\* A catch block that does not write the fallback
CompleteFailNoWrite(i) ==
  /\ i \in DOMAIN turns /\ turns[i].status = "inflight"
  /\ sending' = FALSE
  /\ turns' = [turns EXCEPT ![i].status = "done"]
  /\ UNCHANGED << hookVars, nextId, messages, input, attachedImage, recVars, settingsVars >>

\* page.tsx:206-212: fetch or res.text() rejected
CompleteFail(i) ==
  /\ i \in DOMAIN turns /\ turns[i].status = "inflight"
  /\ messages' = replaceContent(messages, turns[i].waitingId, DEMO)
  /\ sending' = FALSE
  /\ turns' = [turns EXCEPT ![i].status = "done", ![i].resolved = @ + 1]
  /\ UNCHANGED << hookVars, nextId, input, attachedImage, recVars, settingsVars >>

\* ------------------------------------------------------- toggleRecording
(* A recorder is [phase, stream, chunks, cl]:                              *)
(*   phase   "recording"; "stopRequested" once stop() was called (the      *)
(*           recorder's state is inactive, its dataavailable and stop      *)
(*           events are queued); "dataFired" once ondataavailable ran;     *)
(*           "stopped" once onstop ran                                     *)
(*   stream  "open" while the tracks of its MediaStream are live           *)
(*   chunks  the sizes of the blobs pushed by ondataavailable              *)
(*   cl      the closure of the handleSend its onstop calls: the one of    *)
(*           the render whose toggleRecording created the recorder; onstop *)
(*           passes a text, so line 159 never reads the closure's input,   *)
(*           which is left out                                             *)
\* Sizes of the blob a recorder delivers when it stops
ChunkSizes == {0, 1}

\* page.tsx:229-230
fileOf(chunks) == [name |-> "voice-recording.webm", type |-> "audio/webm", chunks |-> chunks]

\* page.tsx:217-218, 221-223: the click while not recording, up to the await
StartRecording ==
  /\ mounted /\ ~settingsOpen /\ ~recording
  /\ Len(acqs) < MaxRec
  /\ acqs' = Append(acqs, [status |-> "pending", cl |-> RecorderClosure])
  /\ UNCHANGED << hookVars, nextId, chatVars, recording, mediaRecorder, recorders,
                  alerts, settingsVars >>

\* page.tsx:223-237: getUserMedia resolved with a stream
AcquireOk(a) ==
  /\ a \in DOMAIN acqs /\ acqs[a].status = "pending"
  /\ acqs' = [acqs EXCEPT ![a].status = "acquired"]
  /\ recorders' = Append(recorders,
       [phase |-> "recording", stream |-> "open", chunks |-> <<>>, cl |-> acqs[a].cl])
  /\ mediaRecorder' = Some(Len(recorders) + 1)
  /\ recording' = TRUE
  /\ UNCHANGED << hookVars, nextId, chatVars, alerts, settingsVars >>

\* A rejection handled after setRecording(true) had already been called
AcquireFailHalfOpen(a) ==
  /\ a \in DOMAIN acqs /\ acqs[a].status = "pending"
  /\ acqs' = [acqs EXCEPT ![a].status = "denied"]
  /\ alerts' = alerts + 1
  /\ recording' = TRUE
  /\ UNCHANGED << hookVars, nextId, chatVars, mediaRecorder, recorders, settingsVars >>

\* page.tsx:238-241: getUserMedia rejected
AcquireFail(a) ==
  /\ a \in DOMAIN acqs /\ acqs[a].status = "pending"
  /\ acqs' = [acqs EXCEPT ![a].status = "denied"]
  /\ alerts' = alerts + 1
  /\ UNCHANGED << hookVars, nextId, chatVars, recording, mediaRecorder, recorders,
                  settingsVars >>

(* page.tsx:218-220: the click while recording.  stop() on a recorder that *)
(* is not recording throws InvalidStateError, and setRecording(false) is   *)
(* then not reached.                                                       *)
StopRecording ==
  /\ mounted /\ ~settingsOpen /\ recording
  /\ IF mediaRecorder = None
       THEN recorders' = recorders /\ recording' = FALSE
       ELSE IF recorders[mediaRecorder[1]].phase = "recording"
         THEN /\ recorders' = [recorders EXCEPT ![mediaRecorder[1]].phase = "stopRequested"]
              /\ recording' = FALSE
         ELSE recorders' = recorders /\ recording' = recording
  /\ UNCHANGED << hookVars, nextId, chatVars, mediaRecorder, acqs, alerts, settingsVars >>

\* page.tsx:227: the dataavailable event a stopped recorder fires before its stop event
OnDataAvailable(r, size) ==
  /\ r \in DOMAIN recorders /\ recorders[r].phase = "stopRequested"
  /\ recorders' = [recorders EXCEPT ![r].phase = "dataFired", ![r].chunks = Append(@, size)]
  /\ UNCHANGED << hookVars, nextId, chatVars, recording, mediaRecorder, acqs, alerts,
                  settingsVars >>

\* page.tsx:228-233
OnStop(r) ==
  /\ r \in DOMAIN recorders /\ recorders[r].phase = "dataFired"
  /\ handleSend(Some(<<>>), Some(fileOf(recorders[r].chunks)), recorders[r].cl)
  /\ recorders' = [recorders EXCEPT ![r].phase = "stopped", ![r].stream = "closed"]
  /\ UNCHANGED << hookVars, recording, mediaRecorder, acqs, alerts, settingsVars >>

\* ------------------------------------------------- the store's operations
(* The conversation log's operations applied on their own, in any order    *)
(* and with any arguments: the append pair of lines 172-183 and the        *)
(* placeholder replace of lines 205 and 209.                               *)
StoreContents == { DEMO, EMPTY_REPLY, <<"Room booked">> }

StoreIds == { genId("m", n) : n \in 1..(2 * MaxTurns + 1) }

\* page.tsx:166-183
StoreAppend ==
  /\ nextId < 2 * MaxTurns + 1
  /\ messages' = appendMessage(appendMessage(messages, userMsgOf(genId("m", nextId), <<"hi">>, None, None)),
                               placeholderOf(genId("m", nextId + 1)))
  /\ nextId' = nextId + 2
  /\ UNCHANGED << hookVars, input, sending, attachedImage, turns, recVars, settingsVars >>

\* page.tsx:205, 209
StoreResolve(id, content) ==
  /\ messages' = replaceContent(messages, id, content)
  /\ UNCHANGED << hookVars, nextId, input, sending, attachedImage, turns, recVars, settingsVars >>

\* ----------------------------------------------------------- specification
\* The settings dialog
SettingsNext ==
  \/ OpenSettings
  \/ \E d \in Drafts : EditDraft(d)
  \/ DefaultDraft
  \/ CancelSettings
  \/ SaveSettings

\* Composing a draft
DraftNext ==
  \/ \E t \in Inputs : TypeInput(t)
  \/ \E f \in Images : handleFileSelect(f)
  \/ RemoveImage

\* Sending from the form and the quick replies
SendNext ==
  \/ SubmitForm
  \/ \E q \in DEFAULT_QUICK : handleQuick(q)

\* The webhook's answers
CompleteNext ==
  \/ \E i \in 1..MaxTurns : \E r \in Responses : CompleteOk(i, r)
  \/ \E i \in 1..MaxTurns : CompleteFail(i)

\* The microphone button and the recorder's callbacks
RecNext ==
  \/ StartRecording
  \/ \E a \in 1..MaxRec : AcquireOk(a)
  \/ \E a \in 1..MaxRec : AcquireFail(a)
  \/ StopRecording
  \/ \E r \in 1..MaxRec : \E size \in ChunkSizes : OnDataAvailable(r, size)
  \/ \E r \in 1..MaxRec : OnStop(r)

\* The whole component
Next == Commit \/ SettingsNext \/ DraftNext \/ SendNext \/ CompleteNext \/ RecNext

Spec == Init /\ [][Next]_vars

(* The component driven by a user who does only part of what the page      *)
(* offers.  Each specification below has the actions of Spec, unchanged,   *)
(* for the controls that user touches.                                     *)
\* Typing, attaching and sending; the webhook answering
NextChat == Commit \/ DraftNext \/ SendNext \/ CompleteNext

SpecChat == Init /\ [][NextChat]_vars

\* ... where every transport call eventually returns or fails
FairChat ==
  /\ SpecChat
  /\ \A i \in 1..MaxTurns : WF_vars(CompleteFail(i) \/ \E r \in Responses : CompleteOk(i, r))

\* Voice messages only
NextRec == Commit \/ RecNext \/ CompleteNext

SpecRec == Init /\ [][NextRec]_vars

\* ... where a stopped recorder's queued events are delivered
FairRec ==
  /\ SpecRec
  /\ WF_vars(\E r \in 1..MaxRec : \E size \in ChunkSizes : OnDataAvailable(r, size))
  /\ WF_vars(\E r \in 1..MaxRec : OnStop(r))

\* The settings dialog only
NextSettings == Commit \/ SettingsNext

SpecSettings == Init /\ [][NextSettings]_vars

\* Voice messages, and the settings dialog
NextRecSettings == Commit \/ SettingsNext \/ RecNext \/ CompleteNext

SpecRecSettings == Init /\ [][NextRecSettings]_vars

\* Attaching an image, sending from the form, and voice messages
NextVoiceImage ==
  \/ Commit
  \/ \E f \in Images : handleFileSelect(f)
  \/ SubmitForm
  \/ RecNext
  \/ CompleteNext

SpecVoiceImage == Init /\ [][NextVoiceImage]_vars

(* handleSend on its own, called with every combination of arguments and   *)
(* of values its closure can hold.                                         *)
\* The optional first argument
SendTexts == { None } \cup { Some(t) : t \in Inputs }

\* The optional second argument
SendAudios == { None, Some(fileOf(<<0>>)) }

\* page.tsx:141-148: the values of a render that handleSend reads
SendClosures ==
  [ input : Inputs, attachedImage : { None } \cup { Some(f) : f \in Images },
    webhookUrl : { <<>>, DEFAULT_WEBHOOK }, chatId : { <<"stored-chat">> } ]

\* page.tsx:158-213
CallHandleSend(text, audioFile, cl) ==
  /\ handleSend(text, audioFile, cl)
  /\ UNCHANGED << hookVars, recVars, settingsVars >>

NextSend ==
  \/ \E text \in SendTexts : \E audioFile \in SendAudios : \E cl \in SendClosures :
       CallHandleSend(text, audioFile, cl)
  \/ CompleteNext

SpecSend == Init /\ [][NextSend]_vars

(* The decoding of the webhook's answer on its own: turns sent with a URL,  *)
(* each answered with any body and content type.                           *)
\* page.tsx:158-204: a text sent to the default webhook
Ask ==
  CallHandleSend(Some(<<"hi">>), None,
    [ input |-> <<>>, attachedImage |-> None, webhookUrl |-> DEFAULT_WEBHOOK,
      chatId |-> <<"stored-chat">> ])

\* page.tsx:120-129, 204-205
Answer == \E i \in 1..MaxTurns : \E r \in ParseResponses : CompleteOk(i, r)

NextParse == Ask \/ Answer

SpecParse == Init /\ [][NextParse]_vars

\* The store's operations on their own
NextStore ==
  \/ StoreAppend
  \/ \E id \in StoreIds : \E content \in StoreContents : StoreResolve(id, content)

SpecStore == Init /\ [][NextStore]_vars

\* ------------------------------------------------------------------ claims
\* The messages of the log that carry id
withId(log, id) == { j \in DOMAIN log : log[j].id = id }

\* Turn i's placeholder is in the log and no longer shows the pending marker
Resolved(i) ==
  /\ withId(messages, turns[i].waitingId) # {}
  /\ \A j \in withId(messages, turns[i].waitingId) : messages[j].content # PENDING

\* Turn i's placeholder is in the log and shows the pending marker
Pending(i) ==
  \E j \in withId(messages, turns[i].waitingId) : messages[j].content = PENDING

\* Turn i's transport call was issued
Sent(i) == turns[i].request # None

(* C1: every turn that passes the empty-input guard has its placeholder    *)
(* resolved eventually, whether the URL is missing, the transport call     *)
(* fails or it returns any body, given that every transport call           *)
(* eventually returns or fails.                                            *)
C1_EveryPlaceholderResolved ==
  \A i \in 1..MaxTurns : (i \in DOMAIN turns) ~> (i \in DOMAIN turns /\ Resolved(i))

\* Two sent turns are resolved, one by a reply and one by the fallback
C1_Witness ==
  \E i, k \in DOMAIN turns :
    /\ Sent(i) /\ Sent(k) /\ Resolved(i) /\ Resolved(k)
    /\ \E j \in withId(messages, turns[i].waitingId) : messages[j].content = DEMO
    /\ \E j \in withId(messages, turns[k].waitingId) : messages[j].content = <<"Room booked">>

(* C2: a step that completes turn i changes the content of the message     *)
(* carrying turn i's waitingId, and changes nothing else in the log,       *)
(* whatever other turns are in flight and in whatever order they complete. *)
C2_CompletionHitsOwnPlaceholder ==
  [][ \A i \in DOMAIN turns :
        (turns[i].status = "inflight" /\ turns'[i].status = "done") =>
          /\ DOMAIN messages' = DOMAIN messages
          /\ \A j \in DOMAIN messages :
               IF messages[j].id = turns[i].waitingId
                 THEN /\ messages[j].content = PENDING
                      /\ messages'[j].content # PENDING
                      /\ messages'[j] = [messages[j] EXCEPT !.content = messages'[j].content]
                 ELSE messages'[j] = messages[j] ]_vars

\* The second of two overlapping turns has completed while the first is still pending
C2_Witness ==
  /\ Len(turns) >= 2
  /\ Sent(1) /\ Sent(2)
  /\ turns[1].status = "inflight" /\ Pending(1)
  /\ turns[2].status = "done" /\ Resolved(2)

(* C3: a turn's placeholder is written exactly once (never by both the     *)
(* success and the fallback path); a message's content changes only from   *)
(* the pending marker to a final content, hence at most once per id; a     *)
(* user message's content never changes.                                   *)
C3_ResolvedExactlyOnce ==
  /\ [](\A i \in DOMAIN turns : turns[i].resolved = (IF turns[i].status = "done" THEN 1 ELSE 0))
  /\ [][ \A j \in DOMAIN messages : \A k \in DOMAIN messages' :
           (messages'[k].id = messages[j].id /\ messages'[k].content # messages[j].content) =>
             /\ messages[j].role = "assistant"
             /\ messages[j].content = PENDING
             /\ messages'[k].content # PENDING ]_vars

\* One turn was resolved by the success path and another by the fallback path
C3_Witness ==
  \E i, k \in DOMAIN turns :
    /\ Sent(i) /\ turns[i].status = "done" /\ turns[i].resolved = 1
    /\ ~Sent(k) /\ turns[k].status = "done" /\ turns[k].resolved = 1
    /\ \E j \in withId(messages, turns[i].waitingId) : messages[j].content = EMPTY_REPLY
    /\ \E j \in withId(messages, turns[k].waitingId) : messages[j].content = DEMO

(* C4: for every turn, as soon as it exists (so before its transport call  *)
(* can return), its user message and its placeholder are in the log, the   *)
(* user message first and the placeholder right after it.                  *)
C4_UserThenPlaceholderAdjacent ==
  \A i \in DOMAIN turns :
    \E j \in DOMAIN messages :
      /\ j + 1 \in DOMAIN messages
      /\ messages[j].id = turns[i].userId /\ messages[j].role = "user"
      /\ messages[j + 1].id = turns[i].waitingId /\ messages[j + 1].role = "assistant"

\* Two turns are in flight at once, both still pending
C4_Witness ==
  /\ Len(turns) >= 2
  /\ turns[1].status = "inflight" /\ turns[2].status = "inflight"
  /\ Pending(1) /\ Pending(2)

(* C5: a turn submitted while the webhook URL is the empty string issues   *)
(* no transport call, and the log then ends with the turn's user message   *)
(* carrying the submitted text followed by its assistant message carrying  *)
(* the demo fallback text.                                                 *)
C5_NoUrlNoCallDemoReply ==
  [][ (webhookUrl = <<>> /\ webhookNext = <<>> /\ Len(turns') = Len(turns) + 1) =>
        LET t == turns'[Len(turns')]
            n == Len(messages')
        IN /\ t.request = None
           /\ n >= 2
           /\ messages'[n] = [id |-> t.waitingId, role |-> "assistant", content |-> DEMO]
           /\ messages'[n - 1] = userMsgOf(t.userId, t.body, t.image, t.audio) ]_vars

\* Message j of the log is some turn's placeholder
IsPlaceholder(j) == \E i \in DOMAIN turns : turns[i].waitingId = messages[j].id

(* C6: the ids of the log are pairwise distinct in every reachable state;  *)
(* every step keeps each existing message at its position with its id and  *)
(* role, never shortens the log, and changes in place only the content of  *)
(* a placeholder.                                                          *)
C6_AppendOnlyDistinctIds ==
  /\ [](\A j, k \in DOMAIN messages : messages[j].id = messages[k].id => j = k)
  /\ [][ /\ Len(messages') >= Len(messages)
         /\ \A j \in DOMAIN messages :
              /\ messages'[j].id = messages[j].id
              /\ messages'[j].role = messages[j].role
              /\ messages'[j].content # messages[j].content => IsPlaceholder(j) ]_vars

\* The log holds the greeting and two whole turns, one resolved in place and one pending
C6_Witness ==
  /\ Len(messages) = 2 * MaxTurns + 1
  /\ \E i, k \in DOMAIN turns : Sent(i) /\ Resolved(i) /\ Pending(k)

\* In the store on its own: the placeholder with this id has been given a final content
AlreadyResolved(id) ==
  \E j \in withId(messages, id) :
    j > 1 /\ messages[j].role = "assistant" /\ messages[j].content # PENDING

C8_ChatIdStable ==
  /\ [](\A i, k \in DOMAIN turns :
          (Sent(i) /\ Sent(k)) =>
            /\ turns[i].request[1].chatId = turns[k].request[1].chatId
            /\ turns[i].request[1].chatId = turns[i].request[1].metadata.chatId)
  /\ [][chatId # <<>> => chatId' = chatId]_vars

(* C9: at most one capture stream is open and at most one recorder is      *)
(* recording at any time, under every interleaving of toggleRecording      *)
(* calls and getUserMedia completions.                                     *)
C9_OneSessionOneHandle ==
  /\ Cardinality({ r \in DOMAIN recorders : recorders[r].stream = "open" }) <= 1
  /\ Cardinality({ r \in DOMAIN recorders : recorders[r].phase = "recording" }) <= 1

\* A stop() has been called on recorder r and its onstop has not run yet
StopPending(r) == recorders[r].phase \in {"stopRequested", "dataFired"}

(* C10: whenever the recording state is Idle and no stop callback is        *)
(* pending, no acquired stream is open.                                    *)
C10_StreamsReleasedWhenIdle ==
  (~recording /\ \A r \in DOMAIN recorders : ~StopPending(r)) =>
    \A r \in DOMAIN recorders : recorders[r].stream = "closed"

\* This step is the rejection of a pending getUserMedia call
Denied ==
  \E a \in DOMAIN acqs : acqs[a].status = "pending" /\ acqs'[a].status = "denied"

(* C11: a step in which getUserMedia is rejected leaves the recording      *)
(* state as it was (Idle stays Idle), stores and creates no recorder,      *)
(* leaves the log and every turn unchanged, and raises exactly one alert;  *)
(* and the state is never Active without a stored recorder that records.   *)
C11_DenialLeavesIdle ==
  /\ [][ Denied =>
          /\ recording' = recording
          /\ mediaRecorder' = mediaRecorder
          /\ recorders' = recorders
          /\ messages' = messages /\ turns' = turns /\ sending' = sending
          /\ alerts' = alerts + 1 ]_vars
  /\ [](recording => (mediaRecorder # None /\ recorders[mediaRecorder[1]].phase = "recording"))

\* A microphone request was denied while a voice turn was in flight, and the state is Idle
C11_Witness ==
  /\ \E a \in DOMAIN acqs : acqs[a].status = "denied"
  /\ alerts >= 1
  /\ ~recording
  /\ \E i \in DOMAIN turns : turns[i].status = "inflight" /\ Pending(i)

\* The recorders whose onstop has run
Stopped == { r \in DOMAIN recorders : recorders[r].phase = "stopped" }

\* The turns that carry an audio file
AudioTurns == { i \in DOMAIN turns : turns[i].audio # None }

(* C12: every recorder on which stop() was called gets its onstop run     *)
(* (again and again no stop is left pending; a recorder's phase only moves *)
(* forward), given that queued events are delivered; the onstop step makes *)
(* exactly one turn, whose audio is the file built from the recorder's     *)
(* chunks, also when the only chunk has size zero; the turn's user message *)
(* and placeholder are appended, and its payload, when one is issued, has  *)
(* type audio and carries the file.  One turn per stopped recorder.        *)
C12_StopFinalizesOneArtifact ==
  /\ []<>(\A r \in DOMAIN recorders : ~StopPending(r))
  /\ [][ \A r \in DOMAIN recorders :
           (recorders[r].phase # "stopped" /\ recorders'[r].phase = "stopped") =>
             /\ Len(turns') = Len(turns) + 1
             /\ Len(messages') = Len(messages) + 2
             /\ LET t == turns'[Len(turns')]
                    n == Len(messages')
                IN /\ t.audio = Some(fileOf(recorders[r].chunks))
                   /\ t.body = <<>>
                   /\ messages'[n - 1] = userMsgOf(t.userId, <<>>, t.image, t.audio)
                   /\ messages'[n].id = t.waitingId /\ messages'[n].role = "assistant"
                   /\ t.request # None =>
                        (t.request[1].type = "audio" /\ t.request[1].audio = t.audio) ]_vars
  /\ [](Cardinality(Stopped) = Cardinality(AudioTurns))

\* A recording that captured nothing was stopped and its turn is in flight as type audio
C12_Witness ==
  \E i \in DOMAIN turns :
    /\ turns[i].audio = Some(fileOf(<<0>>))
    /\ Sent(i) /\ turns[i].request[1].type = "audio"
    /\ Pending(i)
    /\ Cardinality(Stopped) = 1

\* This step is a handleSend call that passed the guard
Submitted == Len(turns') = Len(turns) + 1

\* The turn a Submitted step has created
NewTurn == turns'[Len(turns')]

(* C13: every accepted submit leaves the input empty and no image          *)
(* attached, in the same step that issues the transport call (so before    *)
(* the call resolves); and a turn sends nothing that an earlier submit has *)
(* cleared: the image it sends, if any, is the image attached now, and the *)
(* text it sends, if any, is the trimmed input or a quick reply.           *)
C13_DraftClearedBeforeCall ==
  [][ Submitted =>
        /\ input' = <<>>
        /\ attachedImage' = None
        /\ NewTurn.image # None => NewTurn.image = attachedImage
        /\ NewTurn.body # <<>> => NewTurn.body \in { Trim(input) } \cup DEFAULT_QUICK
        /\ NewTurn.request # None =>
             /\ NewTurn.request[1].image = NewTurn.image
             /\ NewTurn.request[1].text = NewTurn.body ]_vars

(* C14: for every combination of text, image and audio that handleSend    *)
(* accepts and sends, the payload's type is "audio" when an audio file is  *)
(* present, else "image" when an image is present, else "text"; and the    *)
(* payload's text field is the turn's trimmed text, empty or not.          *)
C14_TypePrecedence ==
  [][ (Submitted /\ NewTurn.request # None) =>
        LET p == NewTurn.request[1] IN
        /\ NewTurn.audio # None => p.type = "audio"
        /\ (NewTurn.audio = None /\ NewTurn.image # None) => p.type = "image"
        /\ (NewTurn.audio = None /\ NewTurn.image = None) => p.type = "text"
        /\ p.text = NewTurn.body
        /\ p.image = NewTurn.image /\ p.audio = NewTurn.audio ]_vars

\* A turn with text, image and audio was sent as audio, and one with an image only as image
C14_Witness ==
  \E i, k \in DOMAIN turns :
    /\ Sent(i) /\ turns[i].audio # None /\ turns[i].image # None /\ turns[i].body # <<>>
    /\ turns[i].request[1].type = "audio"
    /\ Sent(k) /\ turns[k].audio = None /\ turns[k].image # None /\ turns[k].body = <<>>
    /\ turns[k].request[1].type = "image" /\ turns[k].request[1].text = <<>>

(* C15: whenever the in-memory webhook URL changes, by a save in the       *)
(* settings dialog or by the load at start, the stored entry is the new    *)
(* value after the step, whatever the new value, the empty string          *)
(* included; so after any sequence of saves the two are equal.             *)
C15_SavedUrlPersisted ==
  [][ webhookUrl' # webhookUrl =>
        getItem(localStorage', KEY_WEBHOOK) = Some(webhookUrl') ]_vars

\* The turns whose transport call returned a response
Answered == { i \in DOMAIN turns : turns[i].response # None }

\* What parseWebhookText makes of the response turn i received
Decoded(i) == parseWebhookText(turns[i].response[1].body, turns[i].response[1].contentType)

\* v is a string: a finite sequence of tokens
IsText(v) == DOMAIN v = 1..Len(v) /\ \A k \in DOMAIN v : v[k] \in STRING

\* Turn i's placeholder shows content
Shows(i, content) == \E j \in withId(messages, turns[i].waitingId) : messages[j].content = content

(* C16: for every body and content type, parseWebhookText returns a string *)
(* and the success path writes it (the catch's fallback text is not        *)
(* shown); an empty body gives exactly "(No response body)"; a body that   *)
(* looks like JSON and on which JSON.parse throws gets the HTML/plain      *)
(* handling: its visible text when it is HTML with text, the raw input     *)
(* when it is not HTML.                                                    *)
C16_DecodeTotal ==
  \A i \in Answered :
    LET r == turns[i].response[1]
        out == Decoded(i)
    IN /\ IsText(out)
       /\ Shows(i, IF out = <<>> THEN EMPTY_REPLY ELSE out)
       /\ r.body.raw = <<>> => out = NO_BODY
       /\ (looksJson(r.body, r.contentType) /\ r.body.json = None) =>
            /\ (r.body.first # "<" /\ r.body.raw # <<>>) => out = r.body.raw
            /\ (r.body.first = "<" /\ ~r.body.iframeTag /\ Trim(r.body.text) # <<>>) =>
                 out = Trim(r.body.text)

\* A malformed JSON-looking body came back as it was, and an empty body declared as JSON as the placeholder
C16_Witness ==
  \E i, k \in Answered :
    /\ turns[i].response[1].body = BodyMalformed /\ Shows(i, <<"{bad">>)
    /\ turns[k].response[1] = [body |-> BodyEmpty, contentType |-> Some(<<"application/json", "; charset=utf-8">>)]
    /\ Shows(k, NO_BODY)

\* The top-level string reply of a parsed object, None when there is none
ReplyOf(v) == IF isString(prop(v, "reply")) THEN Some(prop(v, "reply")[1].s) ELSE None

\* The string data.reply of a parsed object, None when there is none
DataReplyOf(v) ==
  IF isRecord(prop(v, "data")) /\ isString(prop(prop(v, "data"), "reply"))
    THEN Some(prop(prop(v, "data"), "reply")[1].s) ELSE None

\* The string choices[0].message.content of a parsed object, None when there is none
ChoiceContentOf(v) ==
  LET choices == prop(v, "choices")
      first == IF isArray(choices) THEN firstItem(choices) ELSE None
      message == IF isRecord(first) THEN prop(first, "message") ELSE None
  IN IF isRecord(message) /\ isString(prop(message, "content"))
       THEN Some(prop(message, "content")[1].s) ELSE None

(* C17: for a body that parses as a JSON object, the result is the         *)
(* top-level string reply when there is one; else the string data.reply    *)
(* when there is one; else the string choices[0].message.content when      *)
(* there is one; else a newline followed by the 2-space indented dump of   *)
(* the whole value.                                                        *)
C17_ReplyPriority ==
  \A i \in Answered :
    LET v == turns[i].response[1].body.json
        out == Decoded(i)
    IN (v # None /\ v[1].t = "object") =>
         IF ReplyOf(v) # None THEN out = ReplyOf(v)[1]
         ELSE IF DataReplyOf(v) # None THEN out = DataReplyOf(v)[1]
         ELSE IF ChoiceContentOf(v) # None THEN out = ChoiceContentOf(v)[1]
         ELSE out = <<"\n">> \o Stringify(v[1], 0)

\* The object with all three shapes gave its reply, and the object with none gave its dump
C17_Witness ==
  \E i, k \in Answered :
    /\ turns[i].response[1].body = BodyAllThree /\ Shows(i, <<"From reply">>)
    /\ turns[k].response[1].body = BodyNoShape
    /\ Shows(k, <<"\n", "{", "\n", "  ", "\"", "status", "\"", ": ", "\"", "ok", "\"", "\n", "}">>)

\* The body of turn i's response went to the iframe/srcdoc branch
IframeRouted(i) ==
  LET b == turns[i].response[1].body IN b.first = "<" /\ b.iframeTag /\ b.srcdocWord

(* C18: for an HTML body routed to the iframe/srcdoc branch the result is  *)
(* the trimmed inner text of the first iframe's srcdoc when that is not    *)
(* empty, and otherwise the empty string, whatever text the outer document *)
(* has and whatever the raw text is; for an HTML body not routed there the *)
(* result is its trimmed visible text when that is not empty.              *)
C18_IframeNoFallback ==
  \A i \in Answered :
    LET b == turns[i].response[1].body
        out == Decoded(i)
    IN b.first = "<" =>
         IF IframeRouted(i)
           THEN IF b.srcdoc # None /\ b.srcdoc[1] # <<>> /\ Trim(b.innerText) # <<>>
                  THEN out = Trim(b.innerText)
                  ELSE out = <<>>
           ELSE Trim(b.text) # <<>> => out = Trim(b.text)

\* An iframe without inner text gave the empty string though the outer document has text, and plain HTML gave its text
C18_Witness ==
  \E i, k \in Answered :
    /\ turns[i].response[1].body = BodyIframeNoInnerText
    /\ Decoded(i) = <<>> /\ Shows(i, EMPTY_REPLY)
    /\ turns[k].response[1].body = BodyHtmlPlain /\ Shows(k, <<"Hello">>)

(* C19: in every reachable state, sending is true whenever some turn's     *)
(* placeholder is still pending; so sending is false only when no turn is  *)
(* in flight, also with overlapping turns completing in any order.         *)
C19_SendingTracksInFlight ==
  (\E i \in DOMAIN turns : Pending(i)) => sending

(* C20: the image a turn sends is exactly the attachment its submit        *)
(* clears: a turn sends no image that is no longer attached (one an        *)
(* earlier submit has sent and cleared), and clears no attached image      *)
(* without sending it; for every submit, the one made by a recorder's stop *)
(* callback included.                                                      *)
C20_ImageSentOnceNeverLost ==
  [][ Submitted =>
        /\ NewTurn.image = attachedImage
        /\ attachedImage' = None
        /\ NewTurn.request # None => NewTurn.request[1].image = attachedImage ]_vars

(* C21: a submit that changes the input field sends what was in it: the    *)
(* turn's body, and so its user message's text, is the trimmed text of the *)
(* field; a submit made with an explicit text (a quick reply, a voice      *)
(* message) leaves typed text in the field.                                *)
C21_InputClearedOnlyWhenSent ==
  [][ (Submitted /\ input' # input) =>
        /\ NewTurn.body = Trim(input)
        /\ \E j \in DOMAIN messages' :
             /\ messages'[j].id = NewTurn.userId
             /\ messages'[j] = userMsgOf(NewTurn.userId, Trim(input), NewTurn.image, NewTurn.audio) ]_vars

====
